---- MODULE Spec2Model ----
(***************************************************************************)
(* ChemcrowToolkit (src/utu/tools/chemcrow_toolkit.py): the adapter that   *)
(* resolves credentials from configuration and environment, builds one     *)
(* chemcrow tool object per capability, and forwards each tool method to   *)
(* the tool's _run.  The chemcrow tools and the langchain ChatOpenAI       *)
(* client are external: what they return or raise is a nondeterministic    *)
(* choice here.                                                            *)
(***************************************************************************)
EXTENDS Integers, Sequences, FiniteSets, TLC

VARIABLES
    cfg,         \* self.config.config: option name -> value
    env,         \* os.environ: variable name -> value
    phase,       \* "new" (before __init__), "ready" (constructed), "failed" (__init__ raised)
    ctor_error,  \* which step of __init__ raised, "none" when it did not
    llm,         \* self.llm: the arguments ChatOpenAI was built with
    api_keys,    \* self.api_keys
    tools,       \* the sixteen self.*_tool attributes
    last,        \* the most recent tool-method call: its input, what the library did, its outcome
    entry,       \* the example-script coroutine main() runs, "none" when no script runs
    dpc,         \* where that script is
    exit_status, \* the status the process ended with, -1 while it runs
    diag,        \* the diagnostics printed so far
    turn_id,     \* run_interactive_demo's turn_id
    example_i,   \* the position in a script's fixed list of queries or calls
    last_turn,   \* how the turn just processed ended, "none" once the next input is read
    loop_end,    \* what ended the interactive loop, "none" while it has not ended
    init_failed  \* the exceptions raised while a script initialised

toolkitVars == <<cfg, env, phase, ctor_error, llm, api_keys, tools, last>>

demoVars ==
    <<entry, dpc, exit_status, diag, turn_id, example_i, last_turn, loop_end, init_failed>>

vars == <<toolkitVars, demoVars>>

adapter == <<llm, api_keys, tools>>

(***************************************************************************)
(* Values.  Python's None and the empty string are the two falsy strings   *)
(* a configuration mapping or the environment can give.                    *)
(***************************************************************************)
None == "<None>"

Empty == ""

\* Python truthiness of an Optional[str]
Truthy(v) == v # None /\ v # Empty

\* the number of distinct input strings a tool method is called with
MaxArg == 2

Inputs == 1..MaxArg

CredOptions == {"openai_api_key", "serp_api_key", "chemspace_api_key",
                "rxn4chem_api_key", "semantic_scholar_api_key"}

Options == CredOptions \cup {"openai_api_base", "local_rxn"}

KeyNames == {"OPENAI_API_KEY", "SERP_API_KEY", "CHEMSPACE_API_KEY",
             "RXN4CHEM_API_KEY", "SEMANTIC_SCHOLAR_API_KEY"}

EnvNames == KeyNames \cup {"OPENAI_API_BASE"}

\* the environment variable read as fallback for a configuration option
EnvOf(opt) ==
    CASE opt = "openai_api_key" -> "OPENAI_API_KEY"
      [] opt = "serp_api_key" -> "SERP_API_KEY"
      [] opt = "chemspace_api_key" -> "CHEMSPACE_API_KEY"
      [] opt = "rxn4chem_api_key" -> "RXN4CHEM_API_KEY"
      [] opt = "semantic_scholar_api_key" -> "SEMANTIC_SCHOLAR_API_KEY"
      [] opt = "openai_api_base" -> "OPENAI_API_BASE"

\* the configuration option that supplies a credential
OptOf(key) == CHOOSE opt \in CredOptions : EnvOf(opt) = key

ToolAttrs == {"query2cas_tool", "query2smiles_tool", "smiles2name_tool",
              "mol_similarity_tool", "smiles2weight_tool", "func_groups_tool",
              "patent_check_tool", "explosive_check_tool", "control_chem_check_tool",
              "similar_control_chem_check_tool", "safety_summary_tool", "scholar_tool",
              "molecule_price_tool", "web_search_tool", "rxn_predict_tool",
              "rxn_retro_tool"}

\* the attributes built with no condition on a credential
CoreAttrs == {"query2cas_tool", "query2smiles_tool", "smiles2name_tool",
              "mol_similarity_tool", "smiles2weight_tool", "func_groups_tool",
              "patent_check_tool", "explosive_check_tool", "control_chem_check_tool",
              "similar_control_chem_check_tool"}

\* a tool object: its chemcrow class and the arguments its constructor got
Tool(cls, args) == [cls |-> cls, args |-> args]

\* an attribute set to Python None
NoTool == Tool("None", <<>>)

NoLLM == [api_key |-> None, api_base |-> None]

NoCall == [method |-> "none", input |-> <<>>, out |-> "n/a", status |-> "none",
           value |-> [type |-> "none", by |-> NoTool, arg |-> <<>>, text |-> ""],
           invoked |-> <<>>]

(***************************************************************************)
(* __init__, lines 34-129                                                  *)
(***************************************************************************)
\* mutant: the environment wins over the configuration
ResolveKeyEnvFirst(c, e) == IF Truthy(e) THEN e ELSE c

\* `config.get(opt) or os.getenv(VAR)`: c when truthy, otherwise e whatever it is
ResolveKey(c, e) == IF Truthy(c) THEN c ELSE e

\* mutant: openai_api_base falls back to OPENAI_API_BASE as the key does
OpenAIApiBaseEnvFallback == ResolveKey(cfg["openai_api_base"], env["OPENAI_API_BASE"])

\* line 41: `config.get("openai_api_base", None)`, no environment lookup
OpenAIApiBase == cfg["openai_api_base"]

\* lines 39, 50-60: self.api_keys
ApiKeys == [k \in KeyNames |-> ResolveKey(cfg[OptOf(k)], env[k])]

\* lines 43-48: the arguments given to ChatOpenAI
BuildLLM == [api_key |-> ApiKeys["OPENAI_API_KEY"], api_base |-> OpenAIApiBase]

\* line 116: `config.get("local_rxn", False)` taken as a condition
LocalRxn == cfg["local_rxn"] = "true"

\* mutant: the name-to-SMILES tool is built only with a ChemSpace credential
CoreToolsGated(keys) ==
    [a \in CoreAttrs |->
        CASE a = "query2cas_tool" -> Tool("Query2CAS", <<>>)
          [] a = "query2smiles_tool" ->
                IF Truthy(keys["CHEMSPACE_API_KEY"])
                THEN Tool("Query2SMILES", <<keys["CHEMSPACE_API_KEY"]>>)
                ELSE NoTool
          [] a = "smiles2name_tool" -> Tool("SMILES2Name", <<>>)
          [] a = "mol_similarity_tool" -> Tool("MolSimilarity", <<>>)
          [] a = "smiles2weight_tool" -> Tool("SMILES2Weight", <<>>)
          [] a = "func_groups_tool" -> Tool("FuncGroups", <<>>)
          [] a = "patent_check_tool" -> Tool("PatentCheck", <<>>)
          [] a = "explosive_check_tool" -> Tool("ExplosiveCheck", <<>>)
          [] a = "control_chem_check_tool" -> Tool("ControlChemCheck", <<>>)
          [] a = "similar_control_chem_check_tool" -> Tool("SimilarControlChemCheck", <<>>)]

\* lines 84-94: the core tools
CoreTools(keys) ==
    [a \in CoreAttrs |->
        CASE a = "query2cas_tool" -> Tool("Query2CAS", <<>>)
          [] a = "query2smiles_tool" -> Tool("Query2SMILES", <<keys["CHEMSPACE_API_KEY"]>>)
          [] a = "smiles2name_tool" -> Tool("SMILES2Name", <<>>)
          [] a = "mol_similarity_tool" -> Tool("MolSimilarity", <<>>)
          [] a = "smiles2weight_tool" -> Tool("SMILES2Weight", <<>>)
          [] a = "func_groups_tool" -> Tool("FuncGroups", <<>>)
          [] a = "patent_check_tool" -> Tool("PatentCheck", <<>>)
          [] a = "explosive_check_tool" -> Tool("ExplosiveCheck", <<>>)
          [] a = "control_chem_check_tool" -> Tool("ControlChemCheck", <<>>)
          [] a = "similar_control_chem_check_tool" -> Tool("SimilarControlChemCheck", <<>>)]

\* lines 96-102: the tools given the LLM client
LLMTools(keys) ==
    [a \in {"safety_summary_tool", "scholar_tool"} |->
        IF a = "safety_summary_tool"
        THEN Tool("SafetySummary", <<"llm">>)
        ELSE Tool("Scholar2ResultLLM",
                  <<"llm", keys["OPENAI_API_KEY"], keys["SEMANTIC_SCHOLAR_API_KEY"]>>)]

\* lines 104-113: price lookup and web search
OptionalTools(keys) ==
    [a \in {"molecule_price_tool", "web_search_tool"} |->
        IF a = "molecule_price_tool"
        THEN IF Truthy(keys["CHEMSPACE_API_KEY"])
             THEN Tool("GetMoleculePrice", <<keys["CHEMSPACE_API_KEY"]>>)
             ELSE NoTool
        ELSE IF Truthy(keys["SERP_API_KEY"])
             THEN Tool("WebSearch", <<keys["SERP_API_KEY"]>>)
             ELSE NoTool]

\* mutant: local_rxn is ignored, the reaction tools always need the credential
RxnToolsNoLocal(local, keys) ==
    [a \in {"rxn_predict_tool", "rxn_retro_tool"} |->
        IF Truthy(keys["RXN4CHEM_API_KEY"])
        THEN IF a = "rxn_predict_tool"
             THEN Tool("RXNPredict", <<keys["RXN4CHEM_API_KEY"]>>)
             ELSE Tool("RXNRetrosynthesis",
                       <<keys["RXN4CHEM_API_KEY"], keys["OPENAI_API_KEY"]>>)
        ELSE NoTool]

\* mutant: remote retrosynthesis is built only when the OpenAI credential is present
RxnToolsRetroNeedsOpenAI(local, keys) ==
    [a \in {"rxn_predict_tool", "rxn_retro_tool"} |->
        IF local
        THEN IF a = "rxn_predict_tool"
             THEN Tool("RXNPredictLocal", <<>>)
             ELSE Tool("RXNRetrosynthesisLocal", <<>>)
        ELSE IF Truthy(keys["RXN4CHEM_API_KEY"])
             THEN IF a = "rxn_predict_tool"
                  THEN Tool("RXNPredict", <<keys["RXN4CHEM_API_KEY"]>>)
                  ELSE IF Truthy(keys["OPENAI_API_KEY"])
                       THEN Tool("RXNRetrosynthesis",
                                 <<keys["RXN4CHEM_API_KEY"], keys["OPENAI_API_KEY"]>>)
                       ELSE NoTool
             ELSE NoTool]

\* mutant: in local mode only the prediction tool is local, retrosynthesis
\* still goes by the credential
RxnToolsLocalPredictOnly(local, keys) ==
    [a \in {"rxn_predict_tool", "rxn_retro_tool"} |->
        IF a = "rxn_predict_tool"
        THEN IF local THEN Tool("RXNPredictLocal", <<>>)
             ELSE IF Truthy(keys["RXN4CHEM_API_KEY"])
                  THEN Tool("RXNPredict", <<keys["RXN4CHEM_API_KEY"]>>)
                  ELSE NoTool
        ELSE IF Truthy(keys["RXN4CHEM_API_KEY"])
             THEN Tool("RXNRetrosynthesis",
                       <<keys["RXN4CHEM_API_KEY"], keys["OPENAI_API_KEY"]>>)
             ELSE NoTool]

\* lines 115-129: the reaction tools
RxnTools(local, keys) ==
    [a \in {"rxn_predict_tool", "rxn_retro_tool"} |->
        IF local
        THEN IF a = "rxn_predict_tool"
             THEN Tool("RXNPredictLocal", <<>>)
             ELSE Tool("RXNRetrosynthesisLocal", <<>>)
        ELSE IF Truthy(keys["RXN4CHEM_API_KEY"])
             THEN IF a = "rxn_predict_tool"
                  THEN Tool("RXNPredict", <<keys["RXN4CHEM_API_KEY"]>>)
                  ELSE Tool("RXNRetrosynthesis",
                            <<keys["RXN4CHEM_API_KEY"], keys["OPENAI_API_KEY"]>>)
             ELSE NoTool]

\* lines 84-129: every self.*_tool attribute
BuildTools(local, keys) ==
    [a \in ToolAttrs |->
        IF a \in CoreAttrs THEN CoreTools(keys)[a]
        ELSE IF a \in {"safety_summary_tool", "scholar_tool"} THEN LLMTools(keys)[a]
        ELSE IF a \in {"molecule_price_tool", "web_search_tool"} THEN OptionalTools(keys)[a]
        ELSE RxnTools(local, keys)[a]]

\* __init__ runs to its end
ConstructOk ==
    /\ phase = "new"
    /\ phase' = "ready"
    /\ ctor_error' = "none"
    /\ llm' = BuildLLM
    /\ api_keys' = ApiKeys
    /\ tools' = BuildTools(LocalRxn, ApiKeys)
    /\ UNCHANGED <<cfg, env, last>>
    /\ UNCHANGED demoVars

\* mutant: a failure to build the LLM client is swallowed and the adapter is
\* handed out without a client
ConstructFailsKeepsAdapter ==
    /\ phase = "new"
    /\ \E step \in {"ChatOpenAI", "import chemcrow.tools", "tool constructor"} :
          /\ ctor_error' = step
          /\ phase' = IF step = "ChatOpenAI" THEN "ready" ELSE "failed"
    /\ UNCHANGED <<cfg, env, llm, api_keys, tools, last>>
    /\ UNCHANGED demoVars

\* __init__ raises: ChatOpenAI (line 43), the chemcrow import (line 63) or a
\* tool constructor (lines 85-126) raised, and no adapter exists
ConstructFails ==
    /\ phase = "new"
    /\ \E step \in {"ChatOpenAI", "import chemcrow.tools", "tool constructor"} :
          ctor_error' = step
    /\ phase' = "failed"
    /\ UNCHANGED <<cfg, env, llm, api_keys, tools, last>>
    /\ UNCHANGED demoVars

Construct == ConstructOk \/ ConstructFails

(***************************************************************************)
(* Initial states: the configuration and environment __init__ will read.   *)
(***************************************************************************)
\* no example script runs
NoDemo ==
    /\ entry = "none"
    /\ dpc = "idle"
    /\ exit_status = -1
    /\ diag = {}
    /\ turn_id = 0
    /\ example_i = 0
    /\ last_turn = "none"
    /\ loop_end = "none"
    /\ init_failed = {}

InitWith(credPairs, basePairs) ==
    /\ \E cp \in [CredOptions -> credPairs], bp \in basePairs,
          l \in {"absent", "false", "true"} :
          /\ cfg = [o \in Options |->
                       IF o \in CredOptions THEN cp[o][1]
                       ELSE IF o = "openai_api_base" THEN bp[1] ELSE l]
          /\ env = [k \in EnvNames |->
                       IF k \in KeyNames THEN cp[OptOf(k)][2] ELSE bp[2]]
    /\ phase = "new"
    /\ ctor_error = "none"
    /\ llm = NoLLM
    /\ api_keys = [k \in KeyNames |-> None]
    /\ tools = [a \in ToolAttrs |-> NoTool]
    /\ last = NoCall

(***************************************************************************)
(* The tool methods, lines 131-372.  Each is an async def with no await in *)
(* its body, so one call runs to its end as one step.                      *)
(***************************************************************************)
\* what an external _run can do: return a str, return a non-str, raise
Outcomes == {"str", "num", "raise"}

\* a Python value: its type, the tool that produced it, the string _run was
\* given, and its content
Value(type, by, arg, text) == [type |-> type, by |-> by, arg |-> arg, text |-> text]

\* the outcome of a method body
Result(out, status, value, invoked) ==
    [out |-> out, status |-> status, value |-> value, invoked |-> invoked]

\* an input string
S(a) == <<a>>

\* f"{smiles1} {smiles2}", line 236
Join(x, y) == x \o <<0>> \o y

\* str(result) if not isinstance(result, str) else result, line 207
Str(v) == IF v.type = "str" THEN v ELSE [v EXCEPT !.type = "str", !.text = "str(" \o v.text \o ")"]

\* self.<attr>._run(arg): on None the attribute lookup raises AttributeError,
\* otherwise the library returns or raises as it chooses
Run(attr, arg, out) ==
    IF tools[attr] = NoTool
    THEN Result("n/a", "raised", Value("error", NoTool, arg, "AttributeError"), <<>>)
    ELSE IF out = "raise"
    THEN Result(out, "raised", Value("error", tools[attr], arg, "raised by _run"), <<attr>>)
    ELSE Result(out, "returned", Value(out, tools[attr], arg, "returned by _run"), <<attr>>)

\* mutant: a failure of _run is caught and returned as text
ForwardCatches(attr, arg, out) ==
    LET r == Run(attr, arg, out)
    IN  IF r.status = "raised" /\ r.invoked # <<>>
        THEN [r EXCEPT !.status = "returned",
                       !.value = Value("str", NoTool, arg, "Error: raised by _run")]
        ELSE r

\* mutant: a failure of _run is retried once
ForwardRetries(attr, arg, out) ==
    LET r == Run(attr, arg, out)
    IN  IF r.status = "raised" /\ r.invoked # <<>>
        THEN [r EXCEPT !.invoked = <<attr, attr>>]
        ELSE r

\* `return self.<attr>._run(arg)`
Forward(attr, arg, out) == Run(attr, arg, out)

\* lines 206-207: the result of _run converted to str
ForwardStr(attr, arg, out) ==
    LET r == Forward(attr, arg, out)
    IN  IF r.status = "returned" THEN [r EXCEPT !.value = Str(r.value)] ELSE r

\* a fixed message returned by the adapter itself
Message(text) == Value("str", NoTool, <<>>, text)

\* mutant: the None check is missing
GuardedNoCheck(attr, arg, out, text) == Forward(attr, arg, out)

\* `if self.<attr> is None: return <text>` and then the delegation
Guarded(attr, arg, out, text) ==
    IF tools[attr] = NoTool
    THEN Result("n/a", "returned", Message(text), <<>>)
    ELSE Forward(attr, arg, out)

WebSearchUnavailable == "Web search tool not available. Set SERP_API_KEY environment variable."

PriceUnavailable ==
    "Molecule price lookup not available. Set CHEMSPACE_API_KEY environment variable."

PredictUnavailable ==
    "Reaction prediction tool not available. Set RXN4CHEM_API_KEY environment variable or enable local_rxn."

RetroUnavailable ==
    "Retrosynthesis tool not available. Set RXN4CHEM_API_KEY environment variable or enable local_rxn."

\* mutant: a call whose _run raised drops the tool it used
CallDropsTool(method, input, r) ==
    /\ phase = "ready"
    /\ last' = [method |-> method, input |-> input, out |-> r.out, status |-> r.status,
                value |-> r.value, invoked |-> r.invoked]
    /\ tools' = IF r.status = "raised" /\ r.invoked # <<>>
                THEN [tools EXCEPT ![r.invoked[1]] = NoTool]
                ELSE tools
    /\ UNCHANGED <<cfg, env, phase, ctor_error, llm, api_keys>>
    /\ UNCHANGED demoVars

\* one call of a tool method on a constructed adapter: the body assigns no
\* attribute of self
Call(method, input, r) ==
    /\ phase = "ready"
    /\ last' = [method |-> method, input |-> input, out |-> r.out, status |-> r.status,
                value |-> r.value, invoked |-> r.invoked]
    /\ UNCHANGED <<cfg, env, phase, ctor_error, llm, api_keys, tools>>
    /\ UNCHANGED demoVars

query_molecule_cas ==
    \E a \in Inputs, out \in Outcomes :
        Call("query_molecule_cas", <<a>>, Forward("query2cas_tool", S(a), out))

convert_name_to_smiles ==
    \E a \in Inputs, out \in Outcomes :
        Call("convert_name_to_smiles", <<a>>, Forward("query2smiles_tool", S(a), out))

convert_smiles_to_name ==
    \E a \in Inputs, out \in Outcomes :
        Call("convert_smiles_to_name", <<a>>, Forward("smiles2name_tool", S(a), out))

get_molecular_weight ==
    \E a \in Inputs, out \in Outcomes :
        Call("get_molecular_weight", <<a>>, ForwardStr("smiles2weight_tool", S(a), out))

get_functional_groups ==
    \E a \in Inputs, out \in Outcomes :
        Call("get_functional_groups", <<a>>, Forward("func_groups_tool", S(a), out))

check_molecule_similarity ==
    \E a \in Inputs, b \in Inputs, out \in Outcomes :
        Call("check_molecule_similarity", <<a, b>>,
             Forward("mol_similarity_tool", Join(S(a), S(b)), out))

check_patent ==
    \E a \in Inputs, out \in Outcomes :
        Call("check_patent", <<a>>, Forward("patent_check_tool", S(a), out))

check_explosive ==
    \E a \in Inputs, out \in Outcomes :
        Call("check_explosive", <<a>>, Forward("explosive_check_tool", S(a), out))

check_controlled_chemical ==
    \E a \in Inputs, out \in Outcomes :
        Call("check_controlled_chemical", <<a>>, Forward("control_chem_check_tool", S(a), out))

check_similar_controlled_chemicals ==
    \E a \in Inputs, out \in Outcomes :
        Call("check_similar_controlled_chemicals", <<a>>,
             Forward("similar_control_chem_check_tool", S(a), out))

get_safety_summary ==
    \E a \in Inputs, out \in Outcomes :
        Call("get_safety_summary", <<a>>, Forward("safety_summary_tool", S(a), out))

search_scholarly_literature ==
    \E a \in Inputs, out \in Outcomes :
        Call("search_scholarly_literature", <<a>>, Forward("scholar_tool", S(a), out))

web_search_chemical ==
    \E a \in Inputs, out \in Outcomes :
        Call("web_search_chemical", <<a>>,
             Guarded("web_search_tool", S(a), out, WebSearchUnavailable))

get_molecule_price ==
    \E a \in Inputs, out \in Outcomes :
        Call("get_molecule_price", <<a>>,
             Guarded("molecule_price_tool", S(a), out, PriceUnavailable))

predict_reaction ==
    \E a \in Inputs, out \in Outcomes :
        Call("predict_reaction", <<a>>,
             Guarded("rxn_predict_tool", S(a), out, PredictUnavailable))

retrosynthesis_planning ==
    \E a \in Inputs, out \in Outcomes :
        Call("retrosynthesis_planning", <<a>>,
             Guarded("rxn_retro_tool", S(a), out, RetroUnavailable))

ToolCall ==
    \/ query_molecule_cas
    \/ convert_name_to_smiles
    \/ convert_smiles_to_name
    \/ get_molecular_weight
    \/ get_functional_groups
    \/ check_molecule_similarity
    \/ check_patent
    \/ check_explosive
    \/ check_controlled_chemical
    \/ check_similar_controlled_chemicals
    \/ get_safety_summary
    \/ search_scholarly_literature
    \/ web_search_chemical
    \/ get_molecule_price
    \/ predict_reaction
    \/ retrosynthesis_planning

(***************************************************************************)
(* Specifications                                                          *)
(***************************************************************************)
\* each credential absent, given by the configuration, or given by the environment
Init ==
    /\ InitWith({<<None, None>>, <<"a", None>>, <<None, "b">>}, {<<None, "v">>})
    /\ NoDemo

Next == Construct \/ ToolCall

Spec == Init /\ [][Next]_vars

\* construction alone, over every pairing of a configuration value (absent,
\* empty or set) with an environment value (absent or set); the last pair of
\* base values is the demo's configuration, which copies OPENAI_API_BASE into
\* openai_api_base (examples/chemcrow_query2cas_demo.py, line 43)
InitResolve ==
    /\ InitWith({None, Empty, "a"} \X {None, "b"},
                ({None, "u"} \X {None, "v"}) \cup {<<"v", "v">>})
    /\ NoDemo

NextResolve == Construct

SpecResolve == InitResolve /\ [][NextResolve]_vars

(***************************************************************************)
(* The example scripts: examples/chemcrow_agent_demo.py and                *)
(* examples/chemcrow_query2cas_demo.py.  The agent, the configuration      *)
(* loader and the console are external: what they return or raise is a     *)
(* nondeterministic choice.                                                *)
(***************************************************************************)
\* the number of turns run_interactive_demo is followed for
MaxTurns == 2

\* the length of example_queries, chemcrow_agent_demo.py lines 130-134
NumExamples == 3

\* the tool calls of demo_query2cas_basic, chemcrow_query2cas_demo.py lines 56-121
NumBasicCalls == 8

\* the process ends: sys.exit(status), a return to main() (status 0), or an
\* exception nothing catches
Exit(status) ==
    /\ dpc' = "exited"
    /\ exit_status' = status
    /\ UNCHANGED entry

\* print(...) of a diagnostic
Say(d) == diag' = diag \cup {d}

\* mutant: the FileNotFoundError handler prints and returns without sys.exit
InteractiveInitNoExit ==
    /\ entry = "run_interactive_demo"
    /\ dpc = "init"
    /\ \E r \in {"ok", "FileNotFoundError", "ImportError", "Exception"} :
          IF r = "ok"
          THEN /\ dpc' = "prompt"
               /\ UNCHANGED <<entry, exit_status, diag, init_failed>>
          ELSE /\ Say(IF r = "FileNotFoundError" THEN "config file guidance"
                                                 ELSE "troubleshooting")
               /\ init_failed' = init_failed \cup {r}
               /\ Exit(IF r = "FileNotFoundError" THEN 0 ELSE 1)
    /\ UNCHANGED <<turn_id, example_i, last_turn, loop_end>>
    /\ UNCHANGED toolkitVars

\* run_interactive_demo, lines 66-78 and 113-123: the configuration is loaded
\* and the agent built, or the handlers print guidance and sys.exit(1)
InteractiveInit ==
    /\ entry = "run_interactive_demo"
    /\ dpc = "init"
    /\ \E r \in {"ok", "FileNotFoundError", "ImportError", "Exception"} :
          IF r = "ok"
          THEN /\ dpc' = "prompt"
               /\ UNCHANGED <<entry, exit_status, diag, init_failed>>
          ELSE /\ Say(IF r = "FileNotFoundError" THEN "config file guidance"
                                                 ELSE "troubleshooting")
               /\ init_failed' = init_failed \cup {r}
               /\ Exit(1)
    /\ UNCHANGED <<turn_id, example_i, last_turn, loop_end>>
    /\ UNCHANGED toolkitVars

\* run_interactive_demo, lines 83-93 and 105-111: one input is read
InteractivePrompt ==
    /\ entry = "run_interactive_demo"
    /\ dpc = "prompt"
    /\ \E in \in {"exit", "empty", "query", "KeyboardInterrupt", "Exception"} :
          CASE in = "exit" ->
                  /\ Say("goodbye")
                  /\ loop_end' = "exit_command"
                  /\ Exit(0)
            [] in = "empty" ->
                  /\ Say("please enter a query")
                  /\ UNCHANGED <<entry, dpc, exit_status, loop_end>>
            [] in = "query" ->
                  /\ turn_id < MaxTurns
                  /\ dpc' = "turn"
                  /\ UNCHANGED <<entry, exit_status, diag, loop_end>>
            [] in = "KeyboardInterrupt" ->
                  /\ Say("interrupted by user")
                  /\ loop_end' = "interrupt"
                  /\ Exit(0)
            [] in = "Exception" ->
                  /\ Say("error during query")
                  /\ UNCHANGED <<entry, dpc, exit_status, loop_end>>
    /\ last_turn' = "none"
    /\ UNCHANGED <<turn_id, example_i, init_failed>>
    /\ UNCHANGED toolkitVars

\* mutant: the loop body has no try, the exception of a turn reaches the outer
\* handler
InteractiveTurnNoCatch ==
    /\ entry = "run_interactive_demo"
    /\ dpc = "turn"
    /\ \E r \in {"ok", "Exception", "FileNotFoundError", "KeyboardInterrupt"} :
          CASE r = "ok" ->
                  /\ turn_id' = turn_id + 1
                  /\ dpc' = "prompt"
                  /\ last_turn' = "ok"
                  /\ UNCHANGED <<entry, exit_status, diag, loop_end>>
            [] r \in {"Exception", "FileNotFoundError"} ->
                  /\ Say("troubleshooting")
                  /\ last_turn' = "raised"
                  /\ loop_end' = "exception"
                  /\ Exit(1)
                  /\ UNCHANGED turn_id
            [] r = "KeyboardInterrupt" ->
                  /\ Say("interrupted by user")
                  /\ last_turn' = "interrupted"
                  /\ loop_end' = "interrupt"
                  /\ Exit(0)
                  /\ UNCHANGED turn_id
    /\ UNCHANGED <<example_i, init_failed>>
    /\ UNCHANGED toolkitVars

\* run_interactive_demo, lines 95-111: the agent processes the query
InteractiveTurn ==
    /\ entry = "run_interactive_demo"
    /\ dpc = "turn"
    /\ \E r \in {"ok", "Exception", "FileNotFoundError", "KeyboardInterrupt"} :
          CASE r = "ok" ->
                  /\ turn_id' = turn_id + 1
                  /\ dpc' = "prompt"
                  /\ last_turn' = "ok"
                  /\ UNCHANGED <<entry, exit_status, diag, loop_end>>
            [] r \in {"Exception", "FileNotFoundError"} ->
                  /\ Say("error during query")
                  /\ dpc' = "prompt"
                  /\ last_turn' = "raised"
                  /\ UNCHANGED <<entry, exit_status, turn_id, loop_end>>
            [] r = "KeyboardInterrupt" ->
                  /\ Say("interrupted by user")
                  /\ last_turn' = "interrupted"
                  /\ loop_end' = "interrupt"
                  /\ Exit(0)
                  /\ UNCHANGED turn_id
    /\ UNCHANGED <<example_i, init_failed>>
    /\ UNCHANGED toolkitVars

\* run_demo_examples, lines 136-140 and 152-154
ExamplesInit ==
    /\ entry = "run_demo_examples"
    /\ dpc = "init"
    /\ \E r \in {"ok", "FileNotFoundError", "ImportError", "Exception"} :
          IF r = "ok"
          THEN /\ dpc' = "example"
               /\ example_i' = 1
               /\ UNCHANGED <<entry, exit_status, diag, init_failed>>
          ELSE /\ Say("error")
               /\ init_failed' = init_failed \cup {r}
               /\ Exit(1)
               /\ UNCHANGED example_i
    /\ UNCHANGED <<turn_id, last_turn, loop_end>>
    /\ UNCHANGED toolkitVars

\* run_demo_examples, lines 142-150: one example query, its exception caught
ExampleQuery ==
    /\ entry = "run_demo_examples"
    /\ dpc = "example"
    /\ \E r \in {"ok", "Exception", "KeyboardInterrupt"} :
          IF r = "KeyboardInterrupt"
          THEN /\ Exit(130)
               /\ UNCHANGED <<diag, example_i>>
          ELSE /\ IF r = "Exception" THEN Say("example error") ELSE UNCHANGED diag
               /\ IF example_i = NumExamples
                  THEN Exit(0) /\ UNCHANGED example_i
                  ELSE example_i' = example_i + 1 /\ UNCHANGED <<entry, dpc, exit_status>>
    /\ UNCHANGED <<turn_id, last_turn, loop_end, init_failed>>
    /\ UNCHANGED toolkitVars

\* demo_query2cas_basic, lines 28-47 and 128-139: the imports and the toolkit's
\* construction; an ImportError is printed with the install hint and raised
\* again (line 132), which nothing catches
BasicInit ==
    /\ entry \in {"demo_query2cas_basic", "demo_agent_with_query2cas"}
    /\ dpc = "basic_init"
    /\ \E r \in {"ok", "ImportError", "Exception"} :
          IF r = "ok"
          THEN /\ dpc' = "basic_calls"
               /\ example_i' = 1
               /\ UNCHANGED <<entry, exit_status, diag, init_failed>>
          ELSE /\ Say(IF r = "ImportError" THEN "install chemcrow" ELSE "error and traceback")
               /\ init_failed' = init_failed \cup {r}
               /\ Exit(1)
               /\ UNCHANGED example_i
    /\ UNCHANGED <<turn_id, last_turn, loop_end>>
    /\ UNCHANGED toolkitVars

\* demo_query2cas_basic, lines 49-126 and 134-139: the tool calls in turn
BasicCall ==
    /\ entry \in {"demo_query2cas_basic", "demo_agent_with_query2cas"}
    /\ dpc = "basic_calls"
    /\ \E r \in {"ok", "Exception"} :
          IF r = "Exception"
          THEN /\ Say("error and traceback")
               /\ Exit(1)
               /\ UNCHANGED example_i
          ELSE IF example_i = NumBasicCalls
          THEN /\ Say("demo completed")
               /\ Exit(0)
               /\ UNCHANGED example_i
          ELSE /\ example_i' = example_i + 1
               /\ UNCHANGED <<entry, dpc, exit_status, diag>>
    /\ UNCHANGED <<turn_id, last_turn, loop_end, init_failed>>
    /\ UNCHANGED toolkitVars

\* demo_agent_with_query2cas, lines 181-189: what its handlers do with an
\* exception raised anywhere in its try block
AgentHandler(r) ==
    CASE r = "FileNotFoundError" ->
            /\ Say("config not found, run the basic demo")
            /\ dpc' = "basic_init"
            /\ UNCHANGED <<entry, exit_status>>
      [] r \in {"ImportError", "Exception"} ->
            /\ Say("error and traceback")
            /\ Exit(1)
      [] r = "KeyboardInterrupt" ->
            /\ Exit(130)
            /\ UNCHANGED diag

\* demo_agent_with_query2cas, lines 148-158
AgentInit ==
    /\ entry = "demo_agent_with_query2cas"
    /\ dpc = "init"
    /\ \E r \in {"ok", "FileNotFoundError", "ImportError", "Exception"} :
          IF r = "ok"
          THEN /\ dpc' = "sample"
               /\ UNCHANGED <<entry, exit_status, diag, init_failed>>
          ELSE /\ AgentHandler(r)
               /\ init_failed' = init_failed \cup {r}
    /\ UNCHANGED <<turn_id, example_i, last_turn, loop_end>>
    /\ UNCHANGED toolkitVars

\* demo_agent_with_query2cas, lines 160-169: the sample query
AgentSample ==
    /\ entry = "demo_agent_with_query2cas"
    /\ dpc = "sample"
    /\ \E r \in {"ok", "FileNotFoundError", "Exception", "KeyboardInterrupt"} :
          IF r = "ok"
          THEN /\ dpc' = "prompt"
               /\ UNCHANGED <<entry, exit_status, diag>>
          ELSE AgentHandler(r)
    /\ UNCHANGED <<turn_id, example_i, last_turn, loop_end, init_failed>>
    /\ UNCHANGED toolkitVars

\* demo_agent_with_query2cas, lines 173-176: one input is read
AgentPrompt ==
    /\ entry = "demo_agent_with_query2cas"
    /\ dpc = "prompt"
    /\ \E in \in {"exit", "empty", "query", "KeyboardInterrupt", "Exception"} :
          CASE in = "exit" ->
                  /\ loop_end' = "exit_command"
                  /\ Exit(0)
                  /\ UNCHANGED diag
            [] in = "empty" ->
                  UNCHANGED <<entry, dpc, exit_status, diag, loop_end>>
            [] in = "query" ->
                  /\ dpc' = "turn"
                  /\ UNCHANGED <<entry, exit_status, diag, loop_end>>
            [] in = "KeyboardInterrupt" ->
                  /\ loop_end' = "interrupt"
                  /\ AgentHandler(in)
            [] in = "Exception" ->
                  /\ loop_end' = "exception"
                  /\ AgentHandler(in)
    /\ last_turn' = "none"
    /\ UNCHANGED <<turn_id, example_i, init_failed>>
    /\ UNCHANGED toolkitVars

\* demo_agent_with_query2cas, lines 177-189: the agent processes the query; the
\* loop has no try of its own
AgentTurn ==
    /\ entry = "demo_agent_with_query2cas"
    /\ dpc = "turn"
    /\ \E r \in {"ok", "FileNotFoundError", "Exception", "KeyboardInterrupt"} :
          IF r = "ok"
          THEN /\ dpc' = "prompt"
               /\ last_turn' = "ok"
               /\ UNCHANGED <<entry, exit_status, diag, loop_end>>
          ELSE /\ last_turn' = IF r = "KeyboardInterrupt" THEN "interrupted" ELSE "raised"
               /\ loop_end' = IF r = "KeyboardInterrupt" THEN "interrupt" ELSE "exception"
               /\ AgentHandler(r)
    /\ UNCHANGED <<turn_id, example_i, init_failed>>
    /\ UNCHANGED toolkitVars

\* main() of either script has started one of the four coroutines
InitDemo ==
    /\ cfg = [o \in Options |-> IF o = "local_rxn" THEN "absent" ELSE None]
    /\ env = [k \in EnvNames |-> None]
    /\ phase = "new"
    /\ ctor_error = "none"
    /\ llm = NoLLM
    /\ api_keys = [k \in KeyNames |-> None]
    /\ tools = [a \in ToolAttrs |-> NoTool]
    /\ last = NoCall
    /\ entry \in {"run_interactive_demo", "run_demo_examples", "demo_query2cas_basic",
                  "demo_agent_with_query2cas"}
    /\ dpc = IF entry = "demo_query2cas_basic" THEN "basic_init" ELSE "init"
    /\ exit_status = -1
    /\ diag = {}
    /\ turn_id = 0
    /\ example_i = 0
    /\ last_turn = "none"
    /\ loop_end = "none"
    /\ init_failed = {}

NextDemo ==
    \/ InteractiveInit
    \/ InteractivePrompt
    \/ InteractiveTurn
    \/ ExamplesInit
    \/ ExampleQuery
    \/ BasicInit
    \/ BasicCall
    \/ AgentInit
    \/ AgentSample
    \/ AgentPrompt
    \/ AgentTurn

SpecDemo == InitDemo /\ [][NextDemo]_vars

(***************************************************************************)
(* Properties                                                              *)
(***************************************************************************)
Ready == phase = "ready"

Called(m) == Ready /\ last.method = m

\* the attribute a tool method delegates to
AttrOf(m) ==
    CASE m = "query_molecule_cas" -> "query2cas_tool"
      [] m = "convert_name_to_smiles" -> "query2smiles_tool"
      [] m = "convert_smiles_to_name" -> "smiles2name_tool"
      [] m = "get_molecular_weight" -> "smiles2weight_tool"
      [] m = "get_functional_groups" -> "func_groups_tool"
      [] m = "check_molecule_similarity" -> "mol_similarity_tool"
      [] m = "check_patent" -> "patent_check_tool"
      [] m = "check_explosive" -> "explosive_check_tool"
      [] m = "check_controlled_chemical" -> "control_chem_check_tool"
      [] m = "check_similar_controlled_chemicals" -> "similar_control_chem_check_tool"
      [] m = "get_safety_summary" -> "safety_summary_tool"
      [] m = "search_scholarly_literature" -> "scholar_tool"
      [] m = "web_search_chemical" -> "web_search_tool"
      [] m = "get_molecule_price" -> "molecule_price_tool"
      [] m = "predict_reaction" -> "rxn_predict_tool"
      [] m = "retrosynthesis_planning" -> "rxn_retro_tool"

\* the string the last call's method hands to _run, from the call's input
GivenArg ==
    IF last.method = "check_molecule_similarity"
    THEN <<last.input[1], 0, last.input[2]>>
    ELSE <<last.input[1]>>

\* the credential that gates a method, and the method's fixed message
GateKey(m) ==
    CASE m = "get_molecule_price" -> "CHEMSPACE_API_KEY"
      [] m = "web_search_chemical" -> "SERP_API_KEY"
      [] m = "predict_reaction" -> "RXN4CHEM_API_KEY"
      [] m = "retrosynthesis_planning" -> "RXN4CHEM_API_KEY"

GateText(m) ==
    CASE m = "get_molecule_price" -> PriceUnavailable
      [] m = "web_search_chemical" -> WebSearchUnavailable
      [] m = "predict_reaction" -> PredictUnavailable
      [] m = "retrosynthesis_planning" -> RetroUnavailable

GatedMethods ==
    {"get_molecule_price", "web_search_chemical", "predict_reaction", "retrosynthesis_planning"}

UnavailableTexts ==
    {PriceUnavailable, WebSearchUnavailable, PredictUnavailable, RetroUnavailable}

\* the credential is in neither the configuration nor the environment
AbsentFromBoth(k) == cfg[OptOf(k)] = None /\ env[k] = None

\* C1: with local_rxn false and a gated capability's credential absent from both
\* configuration and environment, every call of get_molecule_price,
\* web_search_chemical, predict_reaction and retrosynthesis_planning returns that
\* capability's fixed 'not available' string, raises nothing and invokes nothing.
C1_UnavailableStringWithoutCredential ==
    \A m \in GatedMethods :
        (Called(m) /\ ~LocalRxn /\ AbsentFromBoth(GateKey(m)))
            => /\ last.status = "returned"
               /\ last.value = Message(GateText(m))
               /\ last.invoked = <<>>

C1_Witness ==
    /\ Called("retrosynthesis_planning")
    /\ ~LocalRxn
    /\ AbsentFromBoth("RXN4CHEM_API_KEY")
    /\ last.value = Message(RetroUnavailable)

\* C2 as stated: whenever a credential is set in both the configuration and the
\* environment, to different values, the stored value is the configuration's.
C2_ConfigAlwaysWins ==
    Ready => \A k \in KeyNames :
        (cfg[OptOf(k)] # None /\ env[k] # None /\ cfg[OptOf(k)] # env[k])
            => api_keys[k] = cfg[OptOf(k)]

\* C2 amended: a non-empty configuration value is the one stored and the one the
\* capability is built with, whatever the environment holds; a configuration
\* value that is absent or the empty string gives way to the environment value.
C2_NonEmptyConfigWins ==
    Ready =>
        /\ \A k \in KeyNames :
              /\ Truthy(cfg[OptOf(k)]) => api_keys[k] = cfg[OptOf(k)]
              /\ ~Truthy(cfg[OptOf(k)]) => api_keys[k] = env[k]
        /\ Truthy(cfg["openai_api_key"]) => llm.api_key = cfg["openai_api_key"]
        /\ Truthy(cfg["serp_api_key"])
              => tools["web_search_tool"] = Tool("WebSearch", <<cfg["serp_api_key"]>>)
        /\ Truthy(cfg["chemspace_api_key"])
              => tools["molecule_price_tool"]
                     = Tool("GetMoleculePrice", <<cfg["chemspace_api_key"]>>)
        /\ (Truthy(cfg["rxn4chem_api_key"]) /\ ~LocalRxn)
              => tools["rxn_predict_tool"] = Tool("RXNPredict", <<cfg["rxn4chem_api_key"]>>)
        /\ Truthy(cfg["semantic_scholar_api_key"])
              => tools["scholar_tool"].args[3] = cfg["semantic_scholar_api_key"]

C2_Witness ==
    /\ Ready
    /\ cfg["serp_api_key"] = "a"
    /\ env["SERP_API_KEY"] = "b"
    /\ api_keys["SERP_API_KEY"] = "a"
    /\ tools["web_search_tool"] = Tool("WebSearch", <<"a">>)

\* C3 as stated: with openai_api_base not supplied by the configuration, the LLM
\* client is built with the value of OPENAI_API_BASE.
C3_BaseFallsBackToEnv ==
    (Ready /\ cfg["openai_api_base"] = None) => llm.api_base = env["OPENAI_API_BASE"]

\* C3 amended: the LLM client is built with the configuration's openai_api_base
\* and with None when the configuration supplies none, whatever OPENAI_API_BASE
\* holds; of the two options only openai_api_key falls back to the environment.
C3_BaseFromConfigOnly ==
    Ready =>
        /\ llm.api_base = cfg["openai_api_base"]
        /\ cfg["openai_api_base"] = None => llm.api_base = None
        /\ ~Truthy(cfg["openai_api_key"]) => llm.api_key = env["OPENAI_API_KEY"]

C3_Witness ==
    /\ Ready
    /\ cfg["openai_api_base"] = None
    /\ env["OPENAI_API_BASE"] = "v"
    /\ llm.api_base = None
    /\ cfg["openai_api_key"] = None
    /\ llm.api_key = "b"

\* the adapter uses the remote reaction service and has no OpenAI credential
RemoteRxnWithoutOpenAI ==
    /\ Ready
    /\ ~LocalRxn
    /\ Truthy(api_keys["RXN4CHEM_API_KEY"])
    /\ AbsentFromBoth("OPENAI_API_KEY")

\* C4 as stated: on the remote reaction service without an OpenAI credential the
\* retrosynthesis handle is None and retrosynthesis_planning returns its fixed
\* 'not available' string.
C4_RetroUnavailableWithoutOpenAI ==
    RemoteRxnWithoutOpenAI =>
        /\ tools["rxn_retro_tool"] = NoTool
        /\ Called("retrosynthesis_planning") => last.value = Message(RetroUnavailable)

\* C4 amended: on the remote reaction service the retrosynthesis handle is built
\* from the reaction-service credential alone; without an OpenAI credential it is
\* still a RXNRetrosynthesis object (handed the absent OpenAI value), and
\* retrosynthesis_planning delegates to it instead of returning the fixed string.
C4_RetroBuiltWithoutOpenAI ==
    RemoteRxnWithoutOpenAI =>
        /\ tools["rxn_retro_tool"]
              = Tool("RXNRetrosynthesis", <<api_keys["RXN4CHEM_API_KEY"], None>>)
        /\ Called("retrosynthesis_planning")
              => /\ last.invoked = <<"rxn_retro_tool">>
                 /\ last.value.by = tools["rxn_retro_tool"]
                 /\ last.value # Message(RetroUnavailable)

C4_Witness ==
    /\ RemoteRxnWithoutOpenAI
    /\ Called("retrosynthesis_planning")
    /\ last.status = "returned"
    /\ last.invoked = <<"rxn_retro_tool">>

\* C5: whatever a tool method returns is a str, also when the underlying _run
\* returned a value that is not one.
C5_AlwaysReturnsStr ==
    (Ready /\ last.status = "returned") => last.value.type = "str"

\* the tool methods whose capability needs no credential
CoreMethods ==
    {"query_molecule_cas", "convert_name_to_smiles", "convert_smiles_to_name",
     "get_molecular_weight", "get_functional_groups", "check_molecule_similarity",
     "check_patent", "check_explosive", "check_controlled_chemical",
     "check_similar_controlled_chemicals"}

\* C6: whatever the credentials and local_rxn, a constructed adapter holds a tool
\* object, never None, for each of the ten credential-free capabilities, and a
\* call of their methods reaches that object.
C6_CoreHandlesAlwaysBuilt ==
    Ready =>
        /\ \A a \in CoreAttrs : tools[a] # NoTool
        /\ last.method \in CoreMethods => last.invoked = <<AttrOf(last.method)>>

C6_Witness ==
    /\ Called("convert_name_to_smiles")
    /\ \A k \in KeyNames : AbsentFromBoth(k)
    /\ tools["query2smiles_tool"] = Tool("Query2SMILES", <<None>>)
    /\ last.invoked = <<"query2smiles_tool">>

\* C7: with local_rxn true, predict_reaction and retrosynthesis_planning delegate
\* to the local reaction tools and never return a 'not available' string, with
\* or without a reaction-service credential.
C7_LocalRxnDelegates ==
    (Ready /\ LocalRxn) =>
        /\ tools["rxn_predict_tool"] = Tool("RXNPredictLocal", <<>>)
        /\ tools["rxn_retro_tool"] = Tool("RXNRetrosynthesisLocal", <<>>)
        /\ last.method \in {"predict_reaction", "retrosynthesis_planning"}
              => /\ last.invoked = <<AttrOf(last.method)>>
                 /\ last.value.by = tools[AttrOf(last.method)]
                 /\ last.value.text \notin UnavailableTexts

C7_Witness ==
    /\ Called("predict_reaction")
    /\ LocalRxn
    /\ AbsentFromBoth("RXN4CHEM_API_KEY")
    /\ last.status = "returned"
    /\ last.value.by = Tool("RXNPredictLocal", <<>>)

\* C8: when _run raises during a call on an available handle, the caller of the
\* tool method gets that same exception: it is not returned as a value, not
\* replaced by another error, and _run is not called again.
C8_FailurePropagatesUnchanged ==
    (Ready /\ last.method # "none" /\ last.out = "raise") =>
        /\ last.status = "raised"
        /\ last.value
              = Value("error", tools[AttrOf(last.method)], GivenArg, "raised by _run")
        /\ last.invoked = <<AttrOf(last.method)>>

C8_Witness ==
    /\ Called("web_search_chemical")
    /\ tools["web_search_tool"] # NoTool
    /\ last.out = "raise"
    /\ last.status = "raised"

\* C9: a call invokes its own capability's _run exactly once when the handle is
\* available and invokes nothing when the handle is None.
C9_ExactlyOneDelegation ==
    (Ready /\ last.method # "none") =>
        last.invoked = IF tools[AttrOf(last.method)] = NoTool
                       THEN <<>>
                       ELSE <<AttrOf(last.method)>>

C9_Witness ==
    /\ Called("get_molecule_price")
    /\ tools["molecule_price_tool"] # NoTool
    /\ tools["web_search_tool"] = NoTool
    /\ last.out = "raise"
    /\ last.invoked = <<"molecule_price_tool">>

\* the step is a call that repeats the previous call: same method, same input,
\* same behaviour of the library
RepeatsLastCall ==
    /\ last.method # "none"
    /\ last'.method = last.method
    /\ last'.input = last.input
    /\ last'.out = last.out

\* C10: no call, returning or raising, changes the credential set, the LLM
\* client or any handle, so a call repeated with the same input, the library
\* behaving the same, has the same outcome.
C10_CallsLeaveAdapterUnchanged ==
    [][Ready =>
          /\ adapter' = adapter
          /\ RepeatsLastCall
                => /\ last'.status = last.status
                   /\ last'.value = last.value
                   /\ last'.invoked = last.invoked]_vars

C10_Witness ==
    /\ Called("search_scholarly_literature")
    /\ last.status = "raised"
    /\ api_keys = ApiKeys
    /\ tools = BuildTools(LocalRxn, ApiKeys)
    /\ llm = BuildLLM

\* no adapter exists: nothing of self was handed to the caller
NoAdapter ==
    /\ llm = NoLLM
    /\ api_keys = [k \in KeyNames |-> None]
    /\ tools = [a \in ToolAttrs |-> NoTool]
    /\ last = NoCall

\* C11 as stated: construction fails only when the LLM client cannot be built.
C11_OnlyLLMFailsConstruction ==
    phase = "failed" => ctor_error = "ChatOpenAI"

\* C11 amended: when ChatOpenAI, the import of the chemistry library or a tool
\* constructor raises, construction fails, the error reaches the caller and no
\* adapter exists; a constructed adapter saw none of them raise; and the adapter
\* itself raises nothing, so for every combination of credentials and local_rxn
\* construction can run to its end.
C11_ConstructionFailsOnExternalErrorOnly ==
    /\ phase = "failed"
          => /\ ctor_error \in {"ChatOpenAI", "import chemcrow.tools", "tool constructor"}
             /\ NoAdapter
    /\ phase = "ready" => ctor_error = "none" /\ llm = BuildLLM
    /\ phase = "new" => ENABLED ConstructOk

C11_Witness ==
    /\ phase = "failed"
    /\ ctor_error = "ChatOpenAI"
    /\ AbsentFromBoth("OPENAI_API_KEY")
    /\ NoAdapter

\* the kind of a reaction handle
RxnKind(t) ==
    IF t = NoTool THEN "unavailable"
    ELSE IF t.cls \in {"RXNPredictLocal", "RXNRetrosynthesisLocal"} THEN "local"
    ELSE "remote"

\* C14: the reaction-prediction handle and the retrosynthesis handle are both
\* None, both local or both remote, so predict_reaction returns its 'not
\* available' string exactly when retrosynthesis_planning would return its own.
C14_RxnHandlesAgree ==
    Ready =>
        /\ RxnKind(tools["rxn_predict_tool"]) = RxnKind(tools["rxn_retro_tool"])
        /\ Called("predict_reaction")
              => (last.value = Message(PredictUnavailable)
                     <=> tools["rxn_retro_tool"] = NoTool)
        /\ Called("retrosynthesis_planning")
              => (last.value = Message(RetroUnavailable)
                     <=> tools["rxn_predict_tool"] = NoTool)

C14_Witness ==
    /\ Called("predict_reaction")
    /\ LocalRxn
    /\ Truthy(api_keys["RXN4CHEM_API_KEY"])
    /\ RxnKind(tools["rxn_predict_tool"]) = "local"
    /\ RxnKind(tools["rxn_retro_tool"]) = "local"
    /\ last.invoked = <<"rxn_predict_tool">>

TurnLoops == {"run_interactive_demo", "demo_agent_with_query2cas"}

\* C12 as stated: in both interactive loops an exception raised while the agent
\* processes a turn is caught in that turn, a diagnostic is printed and the loop
\* prompts again; the loop ends only on an exit command or a user interrupt.
C12_EveryLoopSurvivesTurnException ==
    (entry \in TurnLoops) =>
        /\ (last_turn = "raised")
              => (dpc = "prompt" /\ exit_status = -1 /\ diag # {})
        /\ loop_end \in {"none", "exit_command", "interrupt"}

\* C12 amended: run_interactive_demo catches the exception of a turn in that
\* turn, prints "error during query" and prompts again, and its loop ends only on
\* an exit command or a user interrupt.  The loop of demo_agent_with_query2cas
\* has no handler of its own: the exception of a turn ends the loop, and the
\* function's handlers print the error and exit with status 1 or, for a
\* FileNotFoundError, print the configuration notice and run the basic demo.
C12_OnlyInteractiveDemoSurvivesTurnException ==
    /\ (entry = "run_interactive_demo" /\ last_turn = "raised")
          => /\ dpc = "prompt"
             /\ exit_status = -1
             /\ "error during query" \in diag
    /\ entry = "run_interactive_demo"
          => loop_end \in {"none", "exit_command", "interrupt"}
    /\ (entry = "run_interactive_demo" /\ dpc = "exited" /\ init_failed = {})
          => loop_end \in {"exit_command", "interrupt"}
    /\ (entry = "demo_agent_with_query2cas" /\ last_turn = "raised")
          => /\ loop_end = "exception"
             /\ dpc \notin {"prompt", "turn"}
             /\ \/ "config not found, run the basic demo" \in diag
                \/ exit_status = 1 /\ "error and traceback" \in diag

C12_Witness ==
    /\ entry = "run_interactive_demo"
    /\ last_turn = "raised"
    /\ turn_id = 1
    /\ dpc = "prompt"
    /\ "error during query" \in diag

\* C13 as stated: no run in which initialisation failed ends with status zero,
\* and a diagnostic was printed.
C13_InitFailureNeverExitsZero ==
    (init_failed # {} /\ dpc = "exited") => (exit_status # 0 /\ diag # {})

\* C13 amended: an initialisation failure prints a diagnostic and ends the
\* process with status 1 in run_interactive_demo, run_demo_examples and
\* demo_query2cas_basic, and in demo_agent_with_query2cas unless the failure is
\* the missing configuration file; then a notice is printed and the basic demo
\* runs instead, and the process ends with status zero when that demo completes.
C13_InitFailureExitsNonZeroExceptFallback ==
    (init_failed # {}) =>
        /\ diag # {}
        /\ (entry \in {"run_interactive_demo", "run_demo_examples", "demo_query2cas_basic"})
              => (dpc = "exited" /\ exit_status = 1)
        /\ (entry = "run_interactive_demo")
              => IF "FileNotFoundError" \in init_failed
                 THEN "config file guidance" \in diag
                 ELSE "troubleshooting" \in diag
        /\ (entry = "demo_query2cas_basic" /\ "ImportError" \in init_failed)
              => ("install chemcrow" \in diag)
        /\ (entry = "demo_agent_with_query2cas")
              => IF "FileNotFoundError" \in init_failed
                 THEN /\ "config not found, run the basic demo" \in diag
                      /\ (dpc = "exited" /\ exit_status = 0)
                            => /\ init_failed = {"FileNotFoundError"}
                               /\ "demo completed" \in diag
                      /\ (dpc = "exited") => (exit_status \in {0, 1})
                 ELSE dpc = "exited" /\ exit_status = 1

C13_Witness ==
    /\ entry = "demo_agent_with_query2cas"
    /\ init_failed = {"FileNotFoundError"}
    /\ dpc = "exited"
    /\ exit_status = 0
    /\ "demo completed" \in diag

====
